---- MODULE Spec2Model ----
(***************************************************************************)
(* GCPCluster (flambe/cluster/gcp.py): provisioning of one orchestrator    *)
(* node and factories_num factory nodes through a thread pool.             *)
(*                                                                         *)
(* The main thread runs load_all_instances; the pool's worker threads run  *)
(* the submitted creation calls.  Work item 1 is the orchestrator's        *)
(* conn.create_node call, work item i+1 is the creation of factory i.      *)
(***************************************************************************)
EXTENDS Integers, Sequences, FiniteSets

\* ---------------------------------------------------------------- bounds

\* Largest factories_num the configuration may ask for.
MaxFactories == 3

\* Worker threads of the pool.  ThreadPoolExecutor() takes the interpreter's
\* default, which depends on the machine; what matters to the behaviour is
\* whether it is smaller than the number of submitted calls (some calls then
\* wait in the queue), so the model scales it down with MaxFactories.
MaxWorkers == 2

\* ------------------------------------------------------------ vocabulary

None == "None"

\* The cluster's name (self.name), the prefix of every node name.
ClusterName == "flambe"

\* factories_num as given to the constructor, non-positive values included.
FactoryCounts == -1 .. MaxFactories

\* gpu_type as given to the constructor: None or an accelerator type.
GpuTypes == {None, "nvidia-tesla-k80"}

\* Error codes of the provider's GoogleBaseError.
ErrorCodes == {"QUOTA_EXCEEDED", "RESOURCE_EXISTS"}

\* What one conn.create_node call can do: return a node with addresses,
\* return a node whose address lists are empty, or raise GoogleBaseError.
Outcomes == {"ok", "no_address"} \cup ErrorCodes

\* ----------------------------------------------------------------- state

VARIABLES
    factories_num,  \* self.factories_num
    gpu_type,       \* self.gpu_type
    pc,             \* position of the main thread
    work_items,     \* the submitted creation calls, in submit order
    fstate,         \* fstate[t]: state of the future of work item t
    fresult,        \* fresult[t]: what the future of work item t holds
    calls,          \* calls[t]: conn.create_node invocations made for item t
    completed,      \* work items in the order their calls completed
    collected,      \* the list being built by [f for f in future_factories]
    orchestrator,   \* self.orchestrator
    factories,      \* self.factories
    error,          \* the exception leaving the constructor / load_all_instances
    sent            \* the conn.create_node requests made, in the order made

vars == <<factories_num, gpu_type, pc, work_items, fstate, fresult, calls,
          completed, collected, orchestrator, factories, error, sent>>

\* self.gpu_count: the constructor's default.
GpuCount == 1

\* ----------------------------------------------------------------- names

get_orchestrator_name == <<ClusterName, "orchestrator">>

get_factory_basename == <<ClusterName, "factory">>

\* A mutant of FactoryNames: the suffix is the range index itself.
FactoryNamesFromZero ==
    [j \in 1 .. factories_num |-> Append(get_factory_basename, j - 1)]

\* A mutant of FactoryNames: the range stops one short.
FactoryNamesOneShort ==
    [j \in 1 .. factories_num - 1 |-> Append(get_factory_basename, (j - 1) + 1)]

\* [self.get_factory_basename() + f'-{i+1}' for i in range(self.factories_num)]
\* The j-th element of the list is the one for range index i = j - 1.
FactoryNames ==
    [j \in 1 .. factories_num |-> Append(get_factory_basename, (j - 1) + 1)]

\* ------------------------------------------------------------- provider

\* The node conn.create_node returns for `name` under outcome o.
Node(name, o) ==
    [name |-> name,
     public_ips |-> IF o = "ok" THEN << <<"public", name>> >> ELSE << >>,
     private_ips |-> IF o = "ok" THEN << <<"private", name>> >> ELSE << >>]

GoogleBaseError(code) == [type |-> "GoogleBaseError", code |-> code]

IndexError == [type |-> "IndexError", code |-> None]

InvalidPlanError == [type |-> "InvalidPlanError", code |-> None]

\* raise ClusterError(f"Error creating nodes. Original error: {e}"): the
\* message carries the text of the one exception that was caught.
ClusterError(e) == [type |-> "ClusterError", code |-> e.code]

\* No exception, and a field that holds no instance.
NoError == [type |-> None, code |-> None]

NoInstance == [role |-> None, public_ip |-> << >>, private_ip |-> << >>]

\* What a future holds once its call is over: a value or an exception.
Returned(v) == [exc |-> NoError, value |-> v]

Raised(e) == [exc |-> e, value |-> NoInstance]

HasAddresses(node) == Len(node.public_ips) > 0 /\ Len(node.private_ips) > 0

\* OrchestratorInstance / CPUFactoryInstance / GPUFactoryInstance built from
\* node.public_ips[0] and node.private_ips[0].
Instance(role, node) ==
    [role |-> role,
     public_ip |-> node.public_ips[1],
     private_ip |-> node.private_ips[1]]

\* A mutant of FactoryFn: the factories are always created as CPU factories.
FactoryFnCpuOnly == "_create_cpu_factory"

\* The function the factories are created with (lines 104-115).
FactoryFn == IF gpu_type = None THEN "_create_cpu_factory" ELSE "_create_gpu_factory"

\* A work item of the pool: the function submitted and the name it is given.
WorkItem(fn, name) == [fn |-> fn, name |-> name]

\* The arguments conn.create_node is called with by a work item: the
\* orchestrator's item passes the orchestrator's type and image, the factory
\* functions the factory's; only _create_gpu_factory passes
\* ex_accelerator_type and ex_accelerator_count.
Request(item) ==
    [name |-> item.name,
     size |-> IF item.fn = "create_node" THEN "orchestrator_type" ELSE "factory_type",
     image |-> IF item.fn = "create_node" THEN "orchestrator_image" ELSE "factory_image",
     ex_accelerator_type |-> IF item.fn = "_create_gpu_factory" THEN gpu_type ELSE None,
     ex_accelerator_count |-> IF item.fn = "_create_gpu_factory" THEN GpuCount ELSE 0]

\* _create_cpu_factory / _create_gpu_factory: conn.create_node, then the
\* instance built from the node's first addresses, all in the worker.
CreateFactory(role, name, o) ==
    IF o \in ErrorCodes THEN Raised(GoogleBaseError(o))
    ELSE IF ~HasAddresses(Node(name, o)) THEN Raised(IndexError)
    ELSE Returned(Instance(role, Node(name, o)))

\* What the future of a work item holds when the provider answers with o.
\* The orchestrator's item is conn.create_node itself: it returns the node.
RunWorkItem(item, o) ==
    IF item.fn = "create_node"
    THEN IF o \in ErrorCodes THEN Raised(GoogleBaseError(o))
         ELSE Returned(Node(item.name, o))
    ELSE IF item.fn = "_create_cpu_factory"
    THEN CreateFactory("CPUFactory", item.name, o)
    ELSE CreateFactory("GPUFactory", item.name, o)

\* ------------------------------------------------------------ the pool

Tasks == 1 .. Len(work_items)

Running == {t \in Tasks : fstate[t] = "running"}

\* A mutant of NextPending: a cancelled work item is run all the same.
NextPendingOrCancelled(t) ==
    /\ fstate[t] \in {"pending", "cancelled"}
    /\ \A u \in Tasks : u < t => fstate[u] \notin {"pending", "cancelled"}

\* A mutant of NextPending: the factories are held back until the
\* orchestrator's call is over.
NextPendingAfterOrchestrator(t) ==
    /\ fstate[t] = "pending"
    /\ \A u \in Tasks : u < t => fstate[u] # "pending"
    /\ t > 1 => fstate[1] = "done"

\* The work queue is first in, first out: a free worker takes the oldest
\* work item that is still pending (a cancelled item is dropped).
NextPending(t) ==
    /\ fstate[t] = "pending"
    /\ \A u \in Tasks : u < t => fstate[u] # "pending"

\* executor.submit: a new pending future at the end of the queue.
Submitted(names) ==
    /\ work_items' = work_items \o names
    /\ fstate' = fstate \o [j \in 1 .. Len(names) |-> "pending"]
    /\ fresult' = fresult \o [j \in 1 .. Len(names) |-> Returned(NoInstance)]
    /\ calls' = calls \o [j \in 1 .. Len(names) |-> 0]

\* A worker thread takes a work item and enters its call.
Start(t) ==
    /\ NextPending(t)
    /\ Cardinality(Running) < MaxWorkers
    /\ fstate' = [fstate EXCEPT ![t] = "running"]
    /\ calls' = [calls EXCEPT ![t] = @ + 1]
    /\ sent' = Append(sent, Request(work_items[t]))
    /\ UNCHANGED <<factories_num, gpu_type, pc, work_items, fresult, completed,
                   collected, orchestrator, factories, error>>

\* A mutant of FutureStateAfter: a call the provider refused is queued again.
FutureStateAfterRetry(o) == IF o \in ErrorCodes THEN "pending" ELSE "done"

\* The state of a future once its call is over: the submitted functions
\* call conn.create_node once and return or raise, whatever the outcome o.
FutureStateAfter(o) == "done"

\* A mutant of ResultSlot: results are put down in the order of arrival.
ResultSlotByArrival(t) == Len(completed) + 1

\* The slot a worker writes the result of work item t to: the future that
\* submit / map created for that very work item.
ResultSlot(t) == t

\* The call of work item t is over: the provider answered with outcome o.
Finish(t, o) ==
    /\ fstate[t] = "running"
    /\ fstate' = [fstate EXCEPT ![t] = FutureStateAfter(o)]
    /\ fresult' = [fresult EXCEPT ![ResultSlot(t)] =
                      RunWorkItem(work_items[t], o)]
    /\ completed' = Append(completed, t)
    /\ UNCHANGED <<factories_num, gpu_type, pc, work_items, calls, collected,
                   orchestrator, factories, error, sent>>

\* ----------------------------------------------------- the main thread

\* A mutant of ValidPlan: an empty plan is accepted.
ValidPlanNonNegative(n) == n >= 0

\* Cluster.__init__ (super().__init__, line 36) accepts the plan: the base
\* class is not part of gcp.py, the check is the one the specification
\* gives for a cluster plan (InvalidPlanError if factoryCount <= 0).
ValidPlan(n) == n > 0

\* GCPCluster.__init__: the base class's constructor runs first.
Construct ==
    /\ pc = "new"
    /\ IF ValidPlan(factories_num)
       THEN pc' = "constructed" /\ error' = error
       ELSE pc' = "raised" /\ error' = InvalidPlanError
    /\ UNCHANGED <<factories_num, gpu_type, work_items, fstate, fresult, calls,
                   completed, collected, orchestrator, factories, sent>>

\* executor.submit(self.conn.create_node, self.get_orchestrator_name(), ...)
SubmitOrchestrator ==
    /\ pc = "constructed"
    /\ Submitted(<<WorkItem("create_node", get_orchestrator_name)>>)
    /\ pc' = "launch_factories"
    /\ UNCHANGED <<factories_num, gpu_type, completed, collected, orchestrator,
                   factories, error, sent>>

\* executor.map(self._create_*_factory, [...]): map submits every call
\* before it returns the iterator over their results.
SubmitFactories ==
    /\ pc = "launch_factories"
    /\ Submitted([j \in 1 .. Len(FactoryNames) |->
                    WorkItem(FactoryFn, FactoryNames[j])])
    /\ pc' = "orchestrator_result"
    /\ UNCHANGED <<factories_num, gpu_type, completed, collected, orchestrator,
                   factories, error, sent>>

\* A mutant of Caught: the handler takes nothing.
CaughtNothing(e) == FALSE

\* except GoogleBaseError as e: which exceptions the handler takes.
Caught(e) == e.type = "GoogleBaseError"

\* The exception that leaves the try statement when e is raised inside it.
Propagated(e) == IF Caught(e) THEN ClusterError(e) ELSE e

\* The futures executor.map created: one per submitted factory call.
MapSize == Len(work_items) - 1

\* A mutant of MapFuture: the results are taken as the calls complete.  The
\* k-th result is that of the k-th factory call to complete; while fewer
\* than k have completed, the iterator waits on one that has not.
MapFutureAsCompleted(k) ==
    LET done == SelectSeq(completed, LAMBDA t : t > 1)
    IN IF Len(done) >= k THEN done[k]
       ELSE IF \E t \in Tasks : t > 1 /\ fstate[t] # "done"
            THEN CHOOSE t \in Tasks : t > 1 /\ fstate[t] # "done"
            ELSE k + 1

\* A mutant of MapFuture: the results are taken from the other end.
MapFutureFromEnd(k) == Len(work_items) - k + 1

\* The future whose result the iterator of executor.map yields k-th: the
\* futures are kept in submit order (the orchestrator's is work item 1).
MapFuture(k) == k + 1

\* The iterator's finally clause when the k-th result raises: cancel() on
\* every remaining future, which only takes a future that is still pending.
CancelFutures(k) ==
    [t \in Tasks |-> IF t > MapFuture(k) /\ fstate[t] = "pending"
                     THEN "cancelled" ELSE fstate[t]]

\* orchestrator_node = future_orchestrator_node.result() and the
\* OrchestratorInstance built from it (lines 117-125).
OrchestratorResult ==
    /\ pc = "orchestrator_result"
    /\ fstate[1] = "done"
    /\ IF fresult[1].exc # NoError
       THEN /\ error' = Propagated(fresult[1].exc)
            /\ pc' = "exit"
            /\ orchestrator' = orchestrator
       ELSE IF ~HasAddresses(fresult[1].value)
       THEN /\ error' = Propagated(IndexError)
            /\ pc' = "exit"
            /\ orchestrator' = orchestrator
       ELSE /\ orchestrator' = Instance("Orchestrator", fresult[1].value)
            /\ pc' = "collect"
            /\ error' = error
    /\ UNCHANGED <<factories_num, gpu_type, work_items, fstate, fresult, calls,
                   completed, collected, factories, sent>>

\* A mutant of FactoriesWhileCollecting: each result is stored as it comes.
FactoriesStoredAsCollected(c) == c

\* self.factories while the list c is being built: the assignment of line
\* 127 takes place only once the whole list has been evaluated.
FactoriesWhileCollecting(c) == factories

\* One step of [f for f in future_factories]: wait for the next future in
\* submit order and take its result, or let its exception out (line 127).
CollectFactory ==
    /\ pc = "collect"
    /\ Len(collected) < MapSize
    /\ LET k == Len(collected) + 1
           f == MapFuture(k)
       IN /\ fstate[f] = "done"
          /\ IF fresult[f].exc # NoError
             THEN /\ fstate' = CancelFutures(k)
                  /\ error' = Propagated(fresult[f].exc)
                  /\ pc' = "exit"
                  /\ collected' = collected
                  /\ factories' = factories
             ELSE /\ collected' = Append(collected, fresult[f].value)
                  /\ factories' = FactoriesWhileCollecting(collected')
                  /\ UNCHANGED <<fstate, error, pc>>
    /\ UNCHANGED <<factories_num, gpu_type, work_items, fresult, calls,
                   completed, orchestrator, sent>>

\* self.factories = [...] once the iterator is exhausted (line 127).
StoreFactories ==
    /\ pc = "collect"
    /\ Len(collected) = MapSize
    /\ factories' = collected
    /\ pc' = "exit"
    /\ UNCHANGED <<factories_num, gpu_type, work_items, fstate, fresult, calls,
                   completed, collected, orchestrator, error, sent>>

\* A mutant of PoolShutDown: the with statement does not wait.
PoolShutDownNoWait == TRUE

\* Leaving "with ThreadPoolExecutor() as executor" (line 93), with or
\* without an exception, is executor.shutdown(wait=True): the main thread
\* goes on once every work item has run or was cancelled.
PoolShutDown == \A t \in Tasks : fstate[t] \in {"done", "cancelled"}

\* load_all_instances returns, or its exception reaches the caller.
ExitPool ==
    /\ pc = "exit"
    /\ PoolShutDown
    /\ pc' = IF error = NoError THEN "returned" ELSE "raised"
    /\ UNCHANGED <<factories_num, gpu_type, work_items, fstate, fresult, calls,
                   completed, collected, orchestrator, factories, error, sent>>

\* --------------------------------------------------------- specification

Init ==
    /\ factories_num \in FactoryCounts
    /\ gpu_type \in GpuTypes
    /\ pc = "new"
    /\ work_items = << >>
    /\ fstate = << >>
    /\ fresult = << >>
    /\ calls = << >>
    /\ completed = << >>
    /\ collected = << >>
    /\ orchestrator = NoInstance
    /\ factories = << >>
    /\ error = NoError
    /\ sent = << >>

Next ==
    \/ Construct
    \/ SubmitOrchestrator
    \/ SubmitFactories
    \/ OrchestratorResult
    \/ CollectFactory
    \/ StoreFactories
    \/ ExitPool
    \/ \E t \in Tasks : Start(t)
    \/ \E t \in Tasks : \E o \in Outcomes : Finish(t, o)

Spec == Init /\ [][Next]_vars

\* ------------------------------------------------- what the caller sees

\* The provider causes the raised exception enumerates: a ClusterError is
\* built from the one exception the handler caught (line 130).
ReportedCauses ==
    IF error.type = "ClusterError" THEN <<error.code>> ELSE << >>

\* The created nodes the caller can reach once load_all_instances is over:
\* through self.orchestrator (line 118) and self.factories (line 127).  The
\* ClusterError (line 130) carries a message and no node.
ReachableHandles ==
    (IF orchestrator # NoInstance THEN {orchestrator.public_ip} ELSE {})
    \cup {factories[i].public_ip : i \in DOMAIN factories}

\* ------------------------------------------------------------ vocabulary
\* of the properties

\* load_all_instances has submitted every creation call.
Launched ==
    \/ pc \in {"orchestrator_result", "collect", "exit"}
    \/ pc \in {"returned", "raised"} /\ work_items # << >>

\* load_all_instances is over: it returned or its exception reached the caller.
Over == Launched /\ pc \in {"returned", "raised"}

FactoryTasks == {t \in Tasks : t > 1}

\* The creation call of work item t returned a node with its addresses.
Succeeded(t) ==
    /\ fstate[t] = "done"
    /\ fresult[t].exc = NoError
    /\ t = 1 => HasAddresses(fresult[t].value)

\* The creation call of work item t failed with a provider error.
Failed(t) == fstate[t] = "done" /\ fresult[t].exc.type = "GoogleBaseError"

FailedFactories == {t \in FactoryTasks : Failed(t)}

\* The name the plan gives factory i, written out.
PlanFactoryName(i) == <<ClusterName, "factory", i>>

PlanOrchestratorName == <<ClusterName, "orchestrator">>

\* The instance record of the node created under `name`.
RecordOf(name, r) ==
    /\ r.public_ip = <<"public", name>>
    /\ r.private_ip = <<"private", name>>

\* ---------------------------------------------------------------- claims

\* C1: when the orchestrator call and all N factory calls succeed,
\* load_all_instances returns and self.factories[i] is the record of the
\* node created for the i-th factory spec ('{prefix}-factory-{i}', counting
\* from 1), in whatever order the concurrent calls completed.
C1_FactoriesInSpecOrder ==
    (Over /\ \A t \in Tasks : Succeeded(t)) =>
        /\ pc = "returned"
        /\ Len(factories) = factories_num
        /\ \A i \in 1 .. factories_num : RecordOf(PlanFactoryName(i), factories[i])

\* A successful run in which a factory completed before one of lower index.
C1_Witness ==
    /\ pc = "returned"
    /\ \A t \in Tasks : Succeeded(t)
    /\ \E i, j \in 1 .. Len(completed) :
          i < j /\ completed[i] > completed[j] /\ completed[j] > 1

\* C2: for factories_num > 0 one run submits exactly factories_num + 1
\* creation requests: the first for '{prefix}-orchestrator', then one for
\* each '{prefix}-factory-{i}', i = 1 .. factories_num, in increasing order
\* without gap or duplicate; in a run that returns, each was sent to the
\* provider exactly once.
C2_PlanRequests ==
    (factories_num > 0 /\ Launched) =>
        /\ Len(work_items) = factories_num + 1
        /\ work_items[1].name = PlanOrchestratorName
        /\ \A i \in 1 .. factories_num : work_items[i + 1].name = PlanFactoryName(i)
        /\ pc = "returned" => \A t \in Tasks : calls[t] = 1

\* A run that returned with several factories.
C2_Witness == pc = "returned" /\ factories_num >= 2 /\ Launched

\* C3: with factories_num <= 0 construction fails with InvalidPlanError:
\* no creation call is submitted and no topology is stored.
C3_InvalidPlanRejected ==
    factories_num <= 0 =>
        /\ pc \in {"new", "raised"}
        /\ pc = "raised" => error = InvalidPlanError
        /\ work_items = << >>
        /\ orchestrator = NoInstance
        /\ factories = << >>

\* A rejected plan.
C3_Witness == factories_num <= 0 /\ pc = "raised" /\ error = InvalidPlanError

\* The orchestrator call succeeded, k of the N factory calls failed with a
\* provider error (0 < k < N) and the other N - k succeeded.
PartialFactoryFailure ==
    /\ Over
    /\ Succeeded(1)
    /\ \A t \in FactoryTasks : Succeeded(t) \/ Failed(t)
    /\ FailedFactories # {}
    /\ FailedFactories # FactoryTasks

\* C4 (as claimed): after a partial factory failure the caller gets one
\* aggregate error that lists each of the k failed factory specs with its
\* own provider cause.
C4_AggregateErrorListsEveryFailure ==
    PartialFactoryFailure =>
        /\ pc = "raised"
        /\ error.type = "ClusterError"
        /\ Len(ReportedCauses) = Cardinality(FailedFactories)
        /\ \A t \in FailedFactories :
              \E j \in 1 .. Len(ReportedCauses) :
                  ReportedCauses[j] = fresult[t].exc.code

\* C5 (as claimed): after a partial factory failure the caller can reach,
\* for rollback, the orchestrator's node and the node of every factory
\* that was created, and no other.
C5_CreatedNodesReachableForRollback ==
    PartialFactoryFailure =>
        ReachableHandles =
            {<<"public", work_items[t].name>> : t \in {u \in Tasks : Succeeded(u)}}

\* C6 (as claimed): when the orchestrator call fails and all N factory
\* calls succeed, the caller is given exactly the N created factory nodes
\* as orphaned, and no orchestrator node.
C6_OrphanedFactoriesExposed ==
    (Over /\ Failed(1) /\ \A t \in FactoryTasks : Succeeded(t)) =>
        ReachableHandles = {<<"public", work_items[t].name>> : t \in FactoryTasks}

C8_OrchestratorFailureNotDelayed ==
    (pc = "exit" /\ Failed(1)) => ENABLED ExitPool

\* C8 (amended): when the orchestrator call fails, no factory call is
\* cancelled, and the error reaches the caller only after every one of the
\* N factory calls has run to completion.
C8_OrchestratorFailureAfterFactories ==
    (Over /\ pc = "raised" /\ Failed(1)) =>
        /\ error.type = "ClusterError"
        /\ \A t \in FactoryTasks : fstate[t] = "done" /\ calls[t] = 1

\* The orchestrator's failure reported although the orchestrator call was
\* over before the last factory call was.
C8_Witness ==
    /\ Over
    /\ pc = "raised"
    /\ Failed(1)
    /\ factories_num >= 2
    /\ completed[Len(completed)] # 1

\* C9: a provider error (GoogleBaseError) of the orchestrator call or of a
\* factory call never leaves load_all_instances as it is: what the caller
\* gets for it is a ClusterError.
C9_ProviderErrorWrapped ==
    /\ error.type # "GoogleBaseError"
    /\ (Over /\ Failed(1)) => (pc = "raised" /\ error.type = "ClusterError")
    /\ (Over /\ Succeeded(1) /\ \A t \in FactoryTasks : Succeeded(t) \/ Failed(t)) =>
           (FailedFactories # {} => (pc = "raised" /\ error.type = "ClusterError"))

\* A factory's provider error reported to the caller as a ClusterError.
C9_Witness ==
    /\ Over
    /\ pc = "raised"
    /\ Succeeded(1)
    /\ FailedFactories # {}
    /\ error.type = "ClusterError"

\* C10: when load_all_instances returns without error, self.orchestrator
\* holds one orchestrator record and self.factories holds exactly
\* factories_num factory records.
C10_TopologyShape ==
    pc = "returned" =>
        /\ orchestrator.role = "Orchestrator"
        /\ RecordOf(PlanOrchestratorName, orchestrator)
        /\ Len(factories) = factories_num
        /\ \A i \in 1 .. Len(factories) :
              factories[i].role \in {"CPUFactory", "GPUFactory"}

\* A run that returned with the largest number of factories asked for.
C10_Witness ==
    pc = "returned" /\ factories_num >= 3 /\ Len(factories) = factories_num

\* C11: every request made for a factory when gpu_type is configured carries
\* the accelerator type and count; in a run that returns, every factory
\* record has the role CPUFactory when gpu_type is None and GPUFactory
\* otherwise; the orchestrator record is never tagged as a factory.
C11_FactoryRoles ==
    /\ orchestrator.role \notin {"CPUFactory", "GPUFactory"}
    /\ \A k \in 1 .. Len(sent) :
          (gpu_type # None /\ sent[k].name # PlanOrchestratorName) =>
              /\ sent[k].ex_accelerator_type = gpu_type
              /\ sent[k].ex_accelerator_count = GpuCount
    /\ pc = "returned" =>
          /\ orchestrator.role = "Orchestrator"
          /\ \A i \in 1 .. Len(factories) :
                factories[i].role =
                    IF gpu_type = None THEN "CPUFactory" ELSE "GPUFactory"

\* A run with an accelerator configured that returned several GPU factories.
C11_Witness ==
    /\ pc = "returned"
    /\ gpu_type # None
    /\ Len(factories) >= 2
    /\ \A i \in 1 .. Len(factories) : factories[i].role = "GPUFactory"

\* C12: no retry: in any run, returned or raised, conn.create_node is
\* called at most once for each node name.
C12_NoRetry ==
    /\ \A k, l \in 1 .. Len(sent) : k # l => sent[k].name # sent[l].name
    /\ \A t \in Tasks : calls[t] <= 1
    /\ Len(sent) <= Len(work_items)

\* A run that raised after provider failures, each name requested once.
C12_Witness ==
    /\ Over
    /\ pc = "raised"
    /\ Failed(1)
    /\ FailedFactories # {}
    /\ \A t \in Tasks : calls[t] = 1
    /\ Len(sent) = factories_num + 1

\* C13: the orchestrator call and the factory calls do not wait on each
\* other.  Whatever the factory calls are doing, the orchestrator call can
\* start as soon as it is submitted and can complete once started; whatever
\* the orchestrator call is doing, a running factory call can complete, and
\* the first factory call can start while the orchestrator call is running.
C13_CallsIndependent ==
    /\ (Len(work_items) >= 1 /\ fstate[1] = "pending") => ENABLED Start(1)
    /\ (Len(work_items) >= 1 /\ fstate[1] = "running") => ENABLED Finish(1, "ok")
    /\ \A t \in FactoryTasks : fstate[t] = "running" => ENABLED Finish(t, "ok")
    /\ (Len(work_items) >= 2 /\ fstate[1] = "running" /\ fstate[2] = "pending") =>
           ENABLED Start(2)

\* A factory call has started and completed while the orchestrator call is
\* still running.
C13_Witness ==
    /\ Launched
    /\ fstate[1] = "running"
    /\ \E t \in FactoryTasks : Succeeded(t)

\* The converse case: the orchestrator call has completed before any
\* factory call has even started.
C13_OrchestratorFirst ==
    /\ Launched
    /\ Succeeded(1)
    /\ factories_num >= 2
    /\ \A t \in FactoryTasks : fstate[t] = "pending"

\* The work items whose call ended in an exception.
Broken == {t \in Tasks : fstate[t] = "done" /\ fresult[t].exc # NoError}

\* What the caller gets for the exception e of a call.
ReportFor(e) ==
    IF e.type = "GoogleBaseError"
    THEN [type |-> "ClusterError", code |-> e.code]
    ELSE e

\* The error of a run as a function of the outcomes of its calls alone:
\* the orchestrator's failure if it failed, else that of the failed factory
\* of lowest index.
ErrorOfOutcomes ==
    IF fresult[1].exc # NoError THEN ReportFor(fresult[1].exc)
    ELSE IF ~HasAddresses(fresult[1].value) THEN IndexError
    ELSE LET first == CHOOSE t \in Broken : \A u \in Broken : t <= u
         IN ReportFor(fresult[first].exc)

\* C14: the error a run reports is determined by the outcomes of its calls
\* (which calls failed, and with what cause), not by the order in which the
\* calls completed: it is the same function of the outcomes in every run,
\* so two runs with the same outcomes report the same error.
C14_ErrorDeterminedByOutcomes ==
    (Over /\ pc = "raised") => error = ErrorOfOutcomes

\* Two factory calls failed with different causes, the one of higher index
\* first, and the error reported is that of the one of lower index.
C14_Witness ==
    /\ Over
    /\ pc = "raised"
    /\ \E t, u \in FailedFactories :
          /\ t < u
          /\ fresult[t].exc.code # fresult[u].exc.code
          /\ \E i, j \in 1 .. Len(completed) :
                i < j /\ completed[i] = u /\ completed[j] = t
          /\ error = [type |-> "ClusterError", code |-> fresult[t].exc.code]

\* The call of work item t returned a node that lacks an address.
LacksAddress(t) ==
    /\ fstate[t] = "done"
    /\ IF t = 1
       THEN fresult[t].exc = NoError /\ ~HasAddresses(fresult[t].value)
       ELSE fresult[t].exc = IndexError

\* C15 (as claimed): when a creation call returns a node that lacks a
\* public or a private address (and no call was refused by the provider),
\* provisioning fails with AssemblyError: it does not return, and no other,
\* unwrapped error reaches the caller.
C15_MissingAddressIsAssemblyError ==
    (Over /\ (\E t \in Tasks : LacksAddress(t)) /\ \A t \in Tasks : ~Failed(t)) =>
        /\ pc = "raised"
        /\ error.type = "AssemblyError"

\* C16: a creation task writes only the result slot of its own position.
\* In every step, a slot that changes is the slot of a work item whose call
\* ends in that step, no other slot changes with it, and the slot of a call
\* that is over is never written again.
C16_OwnSlotWrittenOnce ==
    [][\A t \in Tasks :
          /\ fresult'[t] # fresult[t] =>
                /\ fstate[t] = "running"
                /\ fstate'[t] = "done"
                /\ \A u \in Tasks \ {t} : fresult'[u] = fresult[u]
          /\ fstate[t] = "done" =>
                (fstate'[t] = "done" /\ fresult'[t] = fresult[t])]_vars

\* Every call of a run with several factories is over, a factory of higher
\* index completed before one of lower index, and each slot holds the
\* result of the call made for its own name.
C16_Witness ==
    /\ Launched
    /\ factories_num >= 2
    /\ \A t \in Tasks : Succeeded(t)
    /\ \E i, j \in 1 .. Len(completed) :
          i < j /\ completed[i] > completed[j] /\ completed[j] > 1
    /\ fresult[1].value.name = work_items[1].name
    /\ \A t \in FactoryTasks : RecordOf(work_items[t].name, fresult[t].value)

\* C17 (as claimed): whenever load_all_instances raises, self.factories is
\* left as it was, and self.orchestrator is assigned if and only if the
\* orchestrator creation call succeeded (returned a node).
C17_OrchestratorAssignedIffCallSucceeded ==
    (Over /\ pc = "raised") =>
        /\ factories = << >>
        /\ orchestrator # NoInstance <=>
               (fstate[1] = "done" /\ fresult[1].exc = NoError)

\* C17 (amended): whenever load_all_instances raises, self.factories is
\* left as it was, even when factory calls succeeded, and self.orchestrator
\* is assigned if and only if the orchestrator creation call returned a
\* node that has a public and a private address; in every state,
\* self.factories assigned implies self.orchestrator assigned.
C17_FrameOnRaise ==
    /\ (Over /\ pc = "raised") =>
          /\ factories = << >>
          /\ orchestrator # NoInstance <=>
                 /\ fstate[1] = "done"
                 /\ fresult[1].exc = NoError
                 /\ HasAddresses(fresult[1].value)
    /\ factories # << >> => orchestrator # NoInstance

\* A run that raised after the orchestrator was stored and a factory's
\* record was collected: self.factories holds nothing.
C17_Witness ==
    /\ Over
    /\ pc = "raised"
    /\ orchestrator # NoInstance
    /\ collected # << >>
    /\ factories = << >>

====
